---- MODULE Spec2Model ----
(***************************************************************************)
(* A model of the coral-ontogeny-viz web application: the Zustand store    *)
(* (src/store/useStore.ts), the animation hook (src/hooks/useAnimation.ts),*)
(* the data-loading hooks (src/hooks/useCoralDataJSON.ts, useCoralData.ts),*)
(* the App view gate (src/App.tsx), the filter panel and year slider, and  *)
(* the two colony aggregators (JSON loader and dataTransform.ts), the      *)
(* statistics utilities (aggregateByYear, computeMeanSize, kaplanMeier,    *)
(* prepareSurvivalEvents, computeSizeBins), the DataLoader cache, and the  *)
(* TransectMap variant that clears the selection when a filter changes.    *)
(*                                                                         *)
(* Conventions.  A nullable value is a sequence of length at most one:     *)
(* Null is <<>> and a present value v is <<v>>.  animationSpeed is kept in *)
(* halves (0.5x is 1, 1x is 2, 2x is 4, 4x is 8).  A React effect runs in  *)
(* the same task as the store update that invalidates it (React 18 commits *)
(* a useSyncExternalStore update and flushes its passive effects before    *)
(* any timer callback can run), so every action below ends with the        *)
(* effects its store update triggers.                                      *)
(***************************************************************************)
EXTENDS Integers, Sequences, FiniteSets, TLC

VARIABLES
    corals,      \* store: AppState.corals
    isLoading,   \* store: AppState.isLoading
    error,       \* store: AppState.error (Null or <<message>>)
    filters,     \* store: AppState.filters
    ui,          \* store: AppState.ui
    app,         \* lifecycle of <App/>: created, rendered, mounted, unmounted
    timers,      \* the browser's live setInterval timers (their closures)
    effect,      \* useAnimation's mounted effect: its deps and its interval
    inflight,    \* number of loadData() runs awaiting their fetch
    fetchCount,  \* number of fetches issued so far
    loaded,      \* some loadData() run has reached setCorals
    webAppData,  \* records of /data/coral_webapp.json
    rawData,     \* rows of the Excel sheet, the header row first
    lastOp,      \* history: the last operation, its argument
    events,      \* statistics: the caller's SurvivalEvent array
    values,      \* statistics: the caller's array of sizes
    km,          \* statistics: the locals of the running kaplanMeier call
    call,        \* statistics: the last call, its argument, its result
    loader,      \* DataLoader: its cache, the fetches in flight and issued
    loaderLog    \* history: clearCache was called, files whose fetch failed

\* what the utilities outside the store work on
statsVars == <<events, values, km, call>>

loaderVars == <<loader, loaderLog>>

libraryVars == <<statsVars, loaderVars>>

\* the store and the App around it
appVars == <<corals, isLoading, error, filters, ui, app, timers, effect,
             inflight, fetchCount, loaded, webAppData, rawData, lastOp>>

vars == <<appVars, libraryVars>>

Null == <<>>

Some(v) == <<v>>

----------------------------------------------------------------------------
(* Bounds of the model *)

\* how many times the data-loading effect may run
MaxLoads == 2

----------------------------------------------------------------------------
(* Program constants *)

GENERA == <<"Poc", "Por", "Acr", "Mil">>

TRANSECTS == <<"T01", "T02">>

\* the year sliders' min="2013" and max="2023"
SliderMinYear == 2013

SliderMaxYear == 2023

SliderYears == SliderMinYear .. SliderMaxYear

\* the speed options 0.5, 1, 2, 4 (in halves)
SpeedOptions == {1, 2, 4, 8}

DefaultMaxSize == 10000

initialFilters ==
    [ selectedGenera    |-> GENERA,
      selectedTransects |-> TRANSECTS,
      yearRange         |-> <<SliderMinYear, SliderMaxYear>>,
      currentYear       |-> SliderMinYear,
      minSize           |-> 0,
      maxSize           |-> DefaultMaxSize ]

initialUI ==
    [ selectedCoralIds |-> <<>>,
      hoveredCoralId   |-> Null,
      playAnimation    |-> FALSE,
      animationSpeed   |-> 2 ]

----------------------------------------------------------------------------
(* Sequence helpers (Array.prototype.includes / filter / spread-append) *)

Range(s) == { s[i] : i \in DOMAIN s }

Includes(s, x) == x \in Range(s)

RECURSIVE Without(_, _)
Without(s, x) ==
    IF s = <<>> THEN <<>>
    ELSE IF Head(s) = x THEN Without(Tail(s), x)
         ELSE <<Head(s)>> \o Without(Tail(s), x)

----------------------------------------------------------------------------
(* The store's reducers, as functions of the slice they rewrite *)

\* { ...state.filters, ...newFilters }
updateFilters(f, newFilters) ==
    [ k \in DOMAIN f |-> IF k \in DOMAIN newFilters THEN newFilters[k] ELSE f[k] ]

\* { ...state.ui, ...newUI }
updateUI(u, newUI) ==
    [ k \in DOMAIN u |-> IF k \in DOMAIN newUI THEN newUI[k] ELSE u[k] ]

\* a selectCorals that adds to the selection
selectCoralsAppend(u, ids) == [ u EXCEPT !.selectedCoralIds = @ \o ids ]

selectCorals(u, ids) == [ u EXCEPT !.selectedCoralIds = ids ]

\* a toggleGenus that never removes
toggleGenusAddOnly(f, genus) ==
    [ f EXCEPT !.selectedGenera = Append(@, genus) ]

toggleGenus(f, genus) ==
    [ f EXCEPT !.selectedGenera =
        IF Includes(@, genus) THEN Without(@, genus) ELSE Append(@, genus) ]

setCurrentYear(f, year) == [ f EXCEPT !.currentYear = year ]

toggleAnimation(u) == [ u EXCEPT !.playAnimation = ~@ ]

----------------------------------------------------------------------------
(* The JSON loader's colony aggregator (useCoralDataJSON.loadData, the part *)
(* between response.json() and setCorals).  A record of the file is         *)
(*   [coral_id, year, transect, genus, diam1, diam2, height,                *)
(*    geom_mean_diam, volume_proxy, fate, is_recruit, died]                 *)
(* with the optional numbers nullable.  Math.log is kept symbolic: a growth *)
(* rate is <<"zero">> (the initial 0) or <<"ln", numerator, denominator>>.  *)
(* The numeric fields of an observation are nullable for both loaders; the  *)
(* JSON loader always stores a number there.                                *)

genusMap ==
    [ Poc |-> "Poc", Por |-> "Por", Acr |-> "Acr", Mil |-> "Mil",
      Pocillopora |-> "Poc", Porites |-> "Por",
      Acropora |-> "Acr", Millepora |-> "Mil" ]

\* genusMap[genus] || 'Poc'
mapGenus(genus) == IF genus \in DOMAIN genusMap THEN genusMap[genus] ELSE "Poc"

\* n || 0 for an optional number
OrZero(n) == IF n = Null THEN 0 ELSE n[1]

\* a number (or undefined) used as a condition
Truthy(n) == n # Null /\ n[1] # 0

\* year || null
YearOrNull(y) == IF y = 0 THEN Null ELSE Some(y)

\* coralMap.set(coralId, {...}) for the first record of a colony
newCoral(record) ==
    [ id               |-> record.coral_id,
      transect         |-> record.transect,
      genus            |-> mapGenus(record.genus),
      observations     |-> <<>>,
      recruitment_year |-> Null,
      death_year       |-> Null,
      max_size         |-> 0,
      lifespan         |-> 0 ]

\* the CoralObservation built for one record of colony `coral`
makeObservation(coral, record) ==
    [ coral_id            |-> record.coral_id,
      transect            |-> coral.transect,
      genus               |-> coral.genus,
      year                |-> record.year,
      diam1               |-> Some(OrZero(record.diam1)),
      diam2               |-> Some(OrZero(record.diam2)),
      height              |-> Some(OrZero(record.height)),
      status              |-> IF record.died THEN "dead" ELSE "alive",
      fate                |-> Some(record.fate),
      growth_ratio        |-> <<"zero">>,
      is_alive            |-> ~record.died,
      is_recruit          |-> record.is_recruit,
      geometric_mean_diam |-> Some(OrZero(record.geom_mean_diam)),
      volume_proxy        |-> Some(OrZero(record.volume_proxy)),
      growth_rate         |-> <<"zero">> ]

\* position of colony `id` in the map's insertion order, 0 when absent
IndexOfId(cs, id) ==
    IF \E i \in DOMAIN cs : cs[i].id = id
    THEN CHOOSE i \in DOMAIN cs : cs[i].id = id
    ELSE 0

\* one iteration of webAppData.records.forEach
addRecord(cs, record) ==
    LET withCoral == IF IndexOfId(cs, record.coral_id) = 0
                     THEN Append(cs, newCoral(record))
                     ELSE cs
        i == IndexOfId(withCoral, record.coral_id)
    IN  [ withCoral EXCEPT ![i].observations =
              Append(@, makeObservation(withCoral[i], record)) ]

RECURSIVE groupRecords(_, _)
groupRecords(cs, records) ==
    IF records = <<>> THEN cs
    ELSE groupRecords(addRecord(cs, Head(records)), Tail(records))

\* Array.prototype.sort is stable: an element goes after those of its year
RECURSIVE insertByYear(_, _)
insertByYear(sorted, o) ==
    IF sorted = <<>> THEN <<o>>
    ELSE IF o.year < Head(sorted).year THEN <<o>> \o sorted
         ELSE <<Head(sorted)>> \o insertByYear(Tail(sorted), o)

RECURSIVE sortFrom(_, _)
sortFrom(sorted, rest) ==
    IF rest = <<>> THEN sorted
    ELSE sortFrom(insertByYear(sorted, Head(rest)), Tail(rest))

\* coral.observations.sort((a, b) => a.year - b.year)
sortByYear(obs) == sortFrom(<<>>, obs)

\* coral.observations.find((o) => !o.is_alive)?.year || null
jsonDeathYear(obs) ==
    IF \E i \in DOMAIN obs : ~obs[i].is_alive
    THEN LET i == CHOOSE i \in DOMAIN obs :
                     /\ ~obs[i].is_alive
                     /\ \A j \in 1 .. (i - 1) : obs[j].is_alive
         IN  YearOrNull(obs[i].year)
    ELSE Null

\* the growth-rate loop over the sorted observations
jsonGrowth(obs) ==
    [ i \in DOMAIN obs |->
        IF /\ i > 1
           /\ Truthy(obs[i - 1].geometric_mean_diam)
           /\ Truthy(obs[i].geometric_mean_diam)
           /\ obs[i - 1].geometric_mean_diam[1] > 0
        THEN [ obs[i] EXCEPT
                 !.growth_rate  = <<"ln", obs[i].geometric_mean_diam[1],
                                          obs[i - 1].geometric_mean_diam[1]>>,
                 !.growth_ratio = <<"ratio", obs[i].geometric_mean_diam[1],
                                             obs[i - 1].geometric_mean_diam[1]>> ]
        ELSE obs[i] ]

\* Math.max(...values) of a non-empty list
MaxOf(S) == CHOOSE m \in S : \A x \in S : x <= m

\* the body of Array.from(coralMap.values()).map((coral) => ...)
jsonDerive(coral) ==
    LET sorted   == sortByYear(coral.observations)
        recruit  == YearOrNull(sorted[1].year)
        death    == jsonDeathYear(sorted)
        lastYear == sorted[Len(sorted)].year
    IN  [ coral EXCEPT
            !.observations     = jsonGrowth(sorted),
            !.recruitment_year = recruit,
            !.death_year       = death,
            !.max_size         = MaxOf({ OrZero(sorted[i].geometric_mean_diam) :
                                           i \in DOMAIN sorted }),
            !.lifespan         = IF death # Null
                                 THEN death[1] - OrZero(recruit)
                                 ELSE lastYear - OrZero(recruit) ]

\* the corals handed to setCorals for the file's records
jsonCorals(records) ==
    LET grouped == groupRecords(<<>>, records)
    IN  [ i \in DOMAIN grouped |-> jsonDerive(grouped[i]) ]

----------------------------------------------------------------------------
(* The Excel loader's parser (utils/dataTransform).  A sheet row is a list  *)
(* of cells, a cell is <<"num", n>>, <<"str", s>> or <<"undefined">> for a  *)
(* column the row does not have.  Columns are counted from 0 as in the      *)
(* source.  Math.sqrt stays symbolic; the sizes tried are multiples of 6, so *)
(* the division in the volume proxy is exact.                               *)

YEARS == [ i \in 1 .. 11 |-> 2012 + i ]

YEAR_BLOCK_SIZE == 8

METADATA_COLS == 8

Num(n) == <<"num", n>>

Str(s) == <<"str", s>>

Undefined == <<"undefined">>

\* row[col]
At(row, col) == IF col + 1 \in DOMAIN row THEN row[col + 1] ELSE Undefined

\* the values parseMeasurement maps to null before it tries parseFloat
MissingCodes == { Str("Na"), Str("na"), Str("UK"), Str("D"), Str(""), Undefined }

\* parseFloat of a cell: a number, or NaN (Null) for text
parseFloat(val) == IF val[1] = "num" THEN Some(val[2]) ELSE Null

parseMeasurement(val) ==
    IF val \in MissingCodes THEN Null ELSE parseFloat(val)

\* cell && cell !== 'nan' ? cell : null
TextOrNull(val) ==
    IF val[1] = "str" /\ val[2] # "" /\ val[2] # "nan"
    THEN Some(val[2])
    ELSE Null

\* String.prototype.toLowerCase over the fate vocabulary of the workbook
toLowerCase(text) ==
    CASE text = "Recruitment" -> "recruitment"
      [] text = "Death"       -> "death"
      [] text = "Growth"      -> "growth"
      [] text = "Shrinkage"   -> "shrinkage"
      [] OTHER                -> text

\* fate && fate.toLowerCase().includes(word)
fateIncludes(fate, word) ==
    fate # Null /\ toLowerCase(fate[1]) = word

\* parseObservation: Null when the colony has no data for the year
parseObservation(row, startCol, year, coralId, transect, genus, x, y) ==
    LET d1   == At(row, startCol)
        d2   == At(row, startCol + 1)
        h    == At(row, startCol + 2)
        fate == TextOrNull(At(row, startCol + 7))
    IN  IF d1 = Str("Na") /\ d2 = Str("Na") /\ h = Str("Na")
        THEN Null
        ELSE Some([ coral_id            |-> coralId,
                    transect            |-> transect,
                    genus               |-> genus,
                    x                   |-> x,
                    y                   |-> y,
                    year                |-> year,
                    diam1               |-> parseMeasurement(d1),
                    diam2               |-> parseMeasurement(d2),
                    height              |-> parseMeasurement(h),
                    observer            |-> TextOrNull(At(row, startCol + 3)),
                    status              |-> TextOrNull(At(row, startCol + 4)),
                    fate                |-> fate,
                    growth_ratio        |-> parseMeasurement(At(row, startCol + 6)),
                    is_alive            |-> d1 # Str("D") /\ d2 # Str("D")
                                                /\ h # Str("D"),
                    is_recruit          |-> fateIncludes(fate, "recruitment"),
                    geometric_mean_diam |-> Null,
                    volume_proxy        |-> Null,
                    growth_rate         |-> Null ])

\* Math.max() of no values; a present number n is <<n>>
NegInfinity == <<"-", "Infinity">>

\* the first pass of enrichCoral's forEach: the sizes of one observation
withSizes(obs) ==
    IF obs.diam1 # Null /\ obs.diam2 # Null /\ obs.height # Null
    THEN [ obs EXCEPT
             !.geometric_mean_diam = Some(<<"sqrt", obs.diam1[1] * obs.diam2[1]>>),
             !.volume_proxy =
                 Some((obs.diam1[1] * obs.diam2[1] * obs.height[1]) \div 6) ]
    ELSE obs

\* the year of the first observation satisfying P, Null when there is none
\* or the year is 0:  observations.find(P)?.year || null
FirstYear(obs, P(_)) ==
    IF \E i \in DOMAIN obs : P(obs[i])
    THEN LET i == CHOOSE i \in DOMAIN obs :
                     P(obs[i]) /\ \A j \in 1 .. (i - 1) : ~P(obs[j])
         IN  YearOrNull(obs[i].year)
    ELSE Null

enrichCoral(coral) ==
    LET sized == [ i \in DOMAIN coral.observations |->
                     withSizes(coral.observations[i]) ]
        obs   == [ i \in DOMAIN sized |->
                     IF /\ i > 1
                        /\ Truthy(sized[i - 1].volume_proxy)
                        /\ Truthy(sized[i].volume_proxy)
                     THEN [ sized[i] EXCEPT !.growth_rate =
                              <<"ln", sized[i].volume_proxy[1],
                                      sized[i - 1].volume_proxy[1]>> ]
                     ELSE sized[i] ]
        IsAlive(o)   == o.is_alive
        IsRecruit(o) == o.is_recruit
        IsDeath(o)   == fateIncludes(o.fate, "death")
        aliveObs     == SelectSeq(obs, IsAlive)
        recruit      == FirstYear(obs, IsRecruit)
    IN  [ coral EXCEPT
            !.observations     = obs,
            !.recruitment_year = IF recruit # Null THEN recruit
                                 ELSE IF aliveObs = <<>> THEN Null
                                 ELSE YearOrNull(aliveObs[1].year),
            !.death_year       = FirstYear(obs, IsDeath),
            !.max_size         =
                IF aliveObs = <<>> THEN NegInfinity
                ELSE Some(MaxOf({ OrZero(aliveObs[i].volume_proxy) :
                                    i \in DOMAIN aliveObs })),
            !.lifespan         = Len(aliveObs) ]

\* the year loop of parseCoralData for one row
RECURSIVE yearBlocks(_, _, _)
yearBlocks(row, coral, i) ==
    IF i > Len(YEARS) THEN <<>>
    ELSE parseObservation(row, METADATA_COLS + (i - 1) * YEAR_BLOCK_SIZE,
                          YEARS[i], coral.id, coral.transect, coral.genus,
                          coral.x, coral.y)
         \o yearBlocks(row, coral, i + 1)

\* parseFloat(cell), 0 when it is NaN
FloatOrZero(val) == OrZero(parseFloat(val))

RECURSIVE parseCoralData(_)
parseCoralData(dataRows) ==
    IF dataRows = <<>> THEN <<>>
    ELSE LET row   == Head(dataRows)
             id    == parseFloat(At(row, 0))
             coral == [ id               |-> id[1],
                        transect         |-> At(row, 3)[2],
                        genus            |-> At(row, 4)[2],
                        x                |-> FloatOrZero(At(row, 5)),
                        y                |-> FloatOrZero(At(row, 6)),
                        z                |-> FloatOrZero(At(row, 7)),
                        observations     |-> <<>>,
                        recruitment_year |-> Null,
                        death_year       |-> Null,
                        max_size         |-> Some(0),
                        lifespan         |-> 0 ]
         IN  IF Len(row) < METADATA_COLS \/ id = Null
             THEN parseCoralData(Tail(dataRows))
             ELSE << enrichCoral([ coral EXCEPT !.observations =
                                     yearBlocks(row, coral, 1) ]) >>
                  \o parseCoralData(Tail(dataRows))

----------------------------------------------------------------------------
(* The statistics module: aggregateByYear.  Its result has one entry per    *)
(* year of YEARS, holding the year and, per queried genus, the three counts.*)

\* the counts of one year and genus, with the year test of `alive` left out
yearGenusCountsAnyYear(cs, year, g) ==
    LET OfGenus(c) == c.genus = g
        genusCorals == SelectSeq(cs, OfGenus)
        Alive(c)   == \E k \in DOMAIN c.observations : c.observations[k].is_alive
        Recruit(c) == \E k \in DOMAIN c.observations :
                          /\ c.observations[k].year = year
                          /\ c.observations[k].is_recruit
        Death(c)   == \E k \in DOMAIN c.observations :
                          /\ c.observations[k].year = year
                          /\ fateIncludes(c.observations[k].fate, "death")
    IN  [ count    |-> Len(SelectSeq(genusCorals, Alive)),
          recruits |-> Len(SelectSeq(genusCorals, Recruit)),
          deaths   |-> Len(SelectSeq(genusCorals, Death)) ]

\* the body of genera.forEach for one year: byGenus[g] = {count, recruits, deaths}
yearGenusCounts(cs, year, g) ==
    LET OfGenus(c) == c.genus = g
        genusCorals == SelectSeq(cs, OfGenus)
        Alive(c)   == \E k \in DOMAIN c.observations :
                          /\ c.observations[k].year = year
                          /\ c.observations[k].is_alive
        Recruit(c) == \E k \in DOMAIN c.observations :
                          /\ c.observations[k].year = year
                          /\ c.observations[k].is_recruit
        Death(c)   == \E k \in DOMAIN c.observations :
                          /\ c.observations[k].year = year
                          /\ fateIncludes(c.observations[k].fate, "death")
    IN  [ count    |-> Len(SelectSeq(genusCorals, Alive)),
          recruits |-> Len(SelectSeq(genusCorals, Recruit)),
          deaths   |-> Len(SelectSeq(genusCorals, Death)) ]

aggregateByYear(cs, genera) ==
    [ y \in DOMAIN YEARS |->
        [ year    |-> YEARS[y],
          byGenus |-> [ g \in Range(genera) |-> yearGenusCounts(cs, YEARS[y], g) ] ] ]

\* corals.forEach of computeMeanSize: the sizes of the colonies alive in
\* `year`, each taken from the colony's first such observation
RECURSIVE meanSizeInputs(_, _, _)
meanSizeInputs(cs, year, metric) ==
    IF cs = <<>> THEN <<>>
    ELSE LET obs   == Head(cs).observations
             Found == { k \in DOMAIN obs : obs[k].year = year /\ obs[k].is_alive }
             first == CHOOSE k \in Found : \A j \in Found : k <= j
             rest  == meanSizeInputs(Tail(cs), year, metric)
         IN  IF Found # {} /\ obs[first][metric] # Null
             THEN <<obs[first][metric][1]>> \o rest
             ELSE rest

\* sizes.reduce((sum, s) => sum + s, 0)
RECURSIVE Sum(_)
Sum(s) == IF s = <<>> THEN 0 ELSE Head(s) + Sum(Tail(s))

\* a quotient a / b is kept as the fraction <<a, b>>
computeMeanSize(cs, year, metric) ==
    LET sizes == meanSizeInputs(cs, year, metric)
    IN  IF Len(sizes) = 0 THEN <<0, 1>> ELSE <<Sum(sizes), Len(sizes)>>

\* the last census year, the end of follow-up of a censored colony
CensusEndYear == 2023

\* corals.forEach of prepareSurvivalEvents
RECURSIVE prepareSurvivalEvents(_)
prepareSurvivalEvents(cs) ==
    IF cs = <<>> THEN <<>>
    ELSE LET c    == Head(cs)
             rest == prepareSurvivalEvents(Tail(cs))
         IN  IF Truthy(c.recruitment_year)
             THEN << [ duration |-> IF Truthy(c.death_year)
                                    THEN c.death_year[1] - c.recruitment_year[1]
                                    ELSE CensusEndYear - c.recruitment_year[1],
                       event    |-> IF c.death_year # Null THEN 1 ELSE 0,
                       genus    |-> c.genus ] >> \o rest
             ELSE rest

\* Array.prototype.sort is stable: an event goes after those of its duration
RECURSIVE insertByDuration(_, _)
insertByDuration(sorted, e) ==
    IF sorted = <<>> THEN <<e>>
    ELSE IF e.duration < Head(sorted).duration THEN <<e>> \o sorted
         ELSE <<Head(sorted)>> \o insertByDuration(Tail(sorted), e)

RECURSIVE sortEventsFrom(_, _)
sortEventsFrom(sorted, rest) ==
    IF rest = <<>> THEN sorted
    ELSE sortEventsFrom(insertByDuration(sorted, Head(rest)), Tail(rest))

\* events.sort((a, b) => a.duration - b.duration)
sortByDuration(evs) == sortEventsFrom(<<>>, evs)

\* a survival probability is the fraction <<numerator, denominator>>
One == <<1, 1>>

Times(p, q) == <<p[1] * q[1], p[2] * q[2]>>

\* a factor that grows with the deaths
kmFactorInverted(atRisk, deaths) == <<atRisk + deaths, atRisk>>

\* (atRisk - deaths) / atRisk
kmFactor(atRisk, deaths) == <<atRisk - deaths, atRisk>>

\* a count of the colonies at risk that starts one short
kmAtRiskAtStartShort(evs) == Len(evs) - 1

\* let atRisk = events.length
kmAtRiskAtStart(evs) == Len(evs)

\* the locals of kaplanMeier before its loop; `sorted` is the caller's array,
\* i the loop index
kmStart(evs) ==
    [ sorted      |-> sortByDuration(evs),
      i           |-> 0,
      atRisk      |-> kmAtRiskAtStart(evs),
      survival    |-> One,
      curve       |-> << [ time |-> 0, survival |-> One ] >>,
      currentTime |-> 0,
      deaths      |-> 0,
      censored    |-> 0 ]

\* survival *= (atRisk - deaths) / atRisk; curve.push({ time, survival })
kmPush(l) ==
    LET s == Times(l.survival, kmFactor(l.atRisk, l.deaths))
    IN  [ l EXCEPT !.survival = s,
                   !.curve    = Append(@, [ time |-> l.currentTime,
                                            survival |-> s ]) ]

\* the block run when the time changes after deaths
kmFlush(l) ==
    [ kmPush(l) EXCEPT !.atRisk   = l.atRisk - (l.deaths + l.censored),
                       !.deaths   = 0,
                       !.censored = 0 ]

\* the next statement to run is a division by atRisk
kmDivides(l) ==
    IF l.i < Len(l.sorted)
    THEN l.sorted[l.i + 1].duration # l.currentTime /\ l.deaths > 0
    ELSE l.deaths > 0

\* one iteration of for (let i = 0; i < sorted.length; i++)
kmIterate(l) ==
    LET event   == l.sorted[l.i + 1]
        flushed == IF kmDivides(l) THEN kmFlush(l) ELSE l
    IN  [ flushed EXCEPT
            !.currentTime = event.duration,
            !.deaths      = IF event.event = 1 THEN @ + 1 ELSE @,
            !.censored    = IF event.event = 1 THEN @ ELSE @ + 1,
            !.i           = @ + 1 ]

\* the final time point, and the curve returned
kmFinish(l) == IF l.deaths > 0 THEN kmPush(l).curve ELSE l.curve

\* Math.log10 of the sizes used below
log10(v) ==
    CASE v = 1    -> 0
      [] v = 10   -> 1
      [] v = 100  -> 2
      [] v = 1000 -> 3

\* an IEEE number that is not a number
NaN == <<"NaN">>

\* Math.pow(10, e / n), kept by its exponent
Pow10(e, n) == <<"pow10", e, n>>

\* v >= Math.pow(10, e / n) and v < Math.pow(10, e / n) for a size v; every
\* comparison with NaN is false, and a size of 0 or less lies below every
\* power of ten
AtLeast(v, x) == x # NaN /\ v > 0 /\ log10(v) * x[3] >= x[2]

Below(v, x) == x # NaN /\ (v <= 0 \/ log10(v) * x[3] < x[2])

\* computeSizeBins.  When the smallest value is 0, logMin is -Infinity and
\* logStep +Infinity, so logMin + i * logStep is NaN for every i; when it is
\* negative, logMin itself is NaN.  Otherwise logStep is
\* (logMax - logMin) / binCount and the edge i is 10^(logMin + i * logStep).
computeSizeBins(vs, binCount) ==
    IF Len(vs) = 0 THEN <<>>
    ELSE LET min    == CHOOSE m \in Range(vs) : \A v \in Range(vs) : m <= v
             max    == MaxOf(Range(vs))
             Edge(i) == IF min <= 0 THEN NaN
                        ELSE Pow10(log10(min) * binCount
                                     + i * (log10(max) - log10(min)), binCount)
             InBin(i, v) == AtLeast(v, Edge(i - 1)) /\ Below(v, Edge(i))
         IN  [ i \in 1 .. binCount |->
                 [ x0    |-> Edge(i - 1),
                   x1    |-> Edge(i),
                   count |-> Cardinality({ k \in DOMAIN vs : InBin(i, vs[k]) }) ] ]


----------------------------------------------------------------------------
(* App: which of its three views the component returns *)

View ==
    IF isLoading THEN "loading"
    ELSE IF error # Null THEN "error"
    ELSE "dashboard"

\* the filter panel, the year slider and the map exist only in the dashboard
CanInteract == app = "mounted" /\ View = "dashboard"

\* the history entry of an operation: its name, its argument, and the
\* operation before it for a tick that follows a setCurrentYear and for a
\* toggleGenus that follows a toggleGenus
RememberedOps ==
    { <<"setCurrentYear", "tick">>, <<"toggleGenus", "toggleGenus">> }

\* (op is the record's first field: two entries of different operations
\* are told apart by it)
Op(name, value) ==
    [ op   |-> name,
      arg  |-> value,
      prev |-> IF <<lastOp.op, name>> \in RememberedOps
               THEN [ op |-> lastOp.op, arg |-> lastOp.arg ]
               ELSE [ op |-> "other", arg |-> Null ] ]

----------------------------------------------------------------------------
(* useAnimation: the effect, its cleanup and the interval callback *)

\* the effect's dependency list (setCurrentYear is a stable reference)
animationDeps(f, u) ==
    <<u.playAnimation, u.animationSpeed, f.yearRange[1], f.yearRange[2]>>

\* what the interval callback's closure holds: minYear, maxYear of the
\* render that created it, and that render's filters
newInterval(f, u) ==
    [ minYear    |-> f.yearRange[1],
      maxYear    |-> f.yearRange[2],
      speed      |-> u.animationSpeed,
      renderYear |-> f.currentYear ]

\* a cleanup that leaves the timer running
clearIntervalLeak(ts, handle) == ts

\* return () => clearInterval(interval); handle is Null for an effect run
\* that returned early
clearInterval(ts, handle) == ts \ Range(handle)

\* a render with store slices (f, u): when the deps changed, the previous
\* run's cleanup and then the effect body
useAnimationEffect(ts, eff, f, u) ==
    LET deps    == animationDeps(f, u)
        cleared == clearInterval(ts, eff.interval)
        t       == newInterval(f, u)
    IN  IF eff.deps = Some(deps)
        THEN [ timers |-> ts, effect |-> eff ]
        ELSE IF ~u.playAnimation
             THEN [ timers |-> cleared,
                    effect |-> [ deps |-> Some(deps), interval |-> Null ] ]
             ELSE [ timers |-> cleared \cup {t},
                    effect |-> [ deps |-> Some(deps), interval |-> Some(t) ] ]

\* the re-render that follows a store update while App is mounted
Rerender(f, u) ==
    LET r == useAnimationEffect(timers, effect, f, u)
    IN  IF app = "mounted"
        THEN timers' = r.timers /\ effect' = r.effect
        ELSE UNCHANGED <<timers, effect>>

\* a callback that uses the year captured when the effect ran
tickReadRenderYear(t) == t.renderYear

\* useStore.getState().filters.currentYear, read inside the callback
tickRead(t) == filters.currentYear

\* a callback that stays on the last year instead of wrapping
advanceYearNoWrap(nextYear, minYear, maxYear) ==
    IF nextYear > maxYear THEN maxYear ELSE nextYear

\* if (nextYear > maxYear) setCurrentYear(minYear) else setCurrentYear(nextYear)
advanceYear(nextYear, minYear, maxYear) ==
    IF nextYear > maxYear THEN minYear ELSE nextYear

\* one run of the setInterval callback of live timer t
Tick(t) ==
    /\ t \in timers
    /\ filters' = setCurrentYear(filters,
                      advanceYear(tickRead(t) + 1, t.minYear, t.maxYear))
    /\ Rerender(filters', ui)
    /\ lastOp' = Op("tick", filters.currentYear)
    /\ UNCHANGED <<corals, isLoading, error, ui, app, inflight, fetchCount,
                   loaded, webAppData, rawData>>
    /\ UNCHANGED libraryVars

----------------------------------------------------------------------------
(* useCoralDataJSON / useCoralData: loadData() *)

\* err instanceof Error ? err.message : 'Unknown error loading JSON data'
errorMessage(kind) ==
    CASE kind = "http"    -> "Failed to load data: Not Found"
      [] kind = "network" -> "Failed to fetch"
      [] kind = "parse"   -> "Unexpected token < in JSON at position 0"
      [] OTHER            -> "Unknown error loading JSON data"

FailureKinds == {"http", "network", "parse", "thrown"}

\* App's first render: the store is as created, no effect has run
Render ==
    /\ app = "created"
    /\ app' = "rendered"
    /\ lastOp' = Op("render", Null)
    /\ UNCHANGED <<corals, isLoading, error, filters, ui, timers, effect,
                   inflight, fetchCount, loaded, webAppData, rawData>>
    /\ UNCHANGED libraryVars

\* the mount effects: loadData() up to its first await (setLoading(true),
\* setError(null), fetch), and useAnimation's effect
MountEffects ==
    /\ app = "rendered"
    /\ app' = "mounted"
    /\ isLoading' = TRUE
    /\ error' = Null
    /\ inflight' = inflight + 1
    /\ fetchCount' = fetchCount + 1
    /\ LET r == useAnimationEffect(timers, effect, filters, ui)
       IN  timers' = r.timers /\ effect' = r.effect
    /\ lastOp' = Op("mount", Null)
    /\ UNCHANGED <<corals, filters, ui, loaded, webAppData, rawData>>
    /\ UNCHANGED libraryVars

\* React StrictMode runs the mount effects a second time right after the
\* first: useAnimation's cleanup and effect, and loadData() again
StrictRemount ==
    /\ app = "mounted"
    /\ inflight = fetchCount
    /\ fetchCount < MaxLoads
    /\ isLoading' = TRUE
    /\ error' = Null
    /\ inflight' = inflight + 1
    /\ fetchCount' = fetchCount + 1
    /\ LET cleaned == [ deps |-> Null, interval |-> Null ]
           r == useAnimationEffect(clearInterval(timers, effect.interval),
                                   cleaned, filters, ui)
       IN  timers' = r.timers /\ effect' = r.effect
    /\ lastOp' = Op("remount", Null)
    /\ UNCHANGED <<corals, filters, ui, app, loaded, webAppData, rawData>>
    /\ UNCHANGED libraryVars

\* a catch branch that fetches again
FetchFailRetry(kind) ==
    /\ inflight > 0
    /\ error' = Some(errorMessage(kind))
    /\ isLoading' = TRUE
    /\ fetchCount' = fetchCount + 1
    /\ Rerender(filters, ui)
    /\ lastOp' = Op("loadFail", kind)
    /\ UNCHANGED <<corals, filters, ui, app, inflight, loaded, webAppData,
                   rawData>>
    /\ UNCHANGED libraryVars

\* the catch branch: the response is not ok, fetch or response.json() throws
FetchFail(kind) ==
    /\ inflight > 0
    /\ inflight' = inflight - 1
    /\ error' = Some(errorMessage(kind))
    /\ isLoading' = FALSE
    /\ Rerender(filters, ui)
    /\ lastOp' = Op("loadFail", kind)
    /\ UNCHANGED <<corals, filters, ui, app, fetchCount, loaded, webAppData,
                   rawData>>
    /\ UNCHANGED libraryVars

\* the try branch to its end: setCorals(corals), setLoading(false)
FetchSucceed ==
    /\ inflight > 0
    /\ inflight' = inflight - 1
    /\ corals' = jsonCorals(webAppData)
    /\ isLoading' = FALSE
    /\ loaded' = TRUE
    /\ Rerender(filters, ui)
    /\ lastOp' = Op("loadOk", Null)
    /\ UNCHANGED <<error, filters, ui, app, fetchCount, webAppData, rawData>>
    /\ UNCHANGED libraryVars

\* useCoralData (the workbook loader of the earlier App), the try branch to
\* its end: parseCoralData(rawData.slice(1)), setCorals, setLoading(false)
ExcelFetchSucceed ==
    /\ inflight > 0
    /\ inflight' = inflight - 1
    /\ corals' = parseCoralData(IF rawData = <<>> THEN <<>> ELSE Tail(rawData))
    /\ isLoading' = FALSE
    /\ loaded' = TRUE
    /\ Rerender(filters, ui)
    /\ lastOp' = Op("loadExcelOk", Null)
    /\ UNCHANGED <<error, filters, ui, app, fetchCount, webAppData, rawData>>
    /\ UNCHANGED libraryVars

\* App leaves the page: the effect cleanups run
Unmount ==
    /\ app = "mounted"
    /\ app' = "unmounted"
    /\ timers' = clearInterval(timers, effect.interval)
    /\ effect' = [ deps |-> Null, interval |-> Null ]
    /\ lastOp' = Op("unmount", Null)
    /\ UNCHANGED <<corals, isLoading, error, filters, ui, inflight,
                   fetchCount, loaded, webAppData, rawData>>
    /\ UNCHANGED libraryVars

----------------------------------------------------------------------------
(* User input: YearSlider, FilterPanel, TransectMap.  Each handler is one   *)
(* store update followed by the re-render it causes.                        *)

UserFrame ==
    UNCHANGED <<corals, isLoading, error, app, inflight, fetchCount, loaded,
                webAppData, rawData, libraryVars>>

\* YearSlider: onChange={(e) => setCurrentYear(parseInt(e.target.value))}
SliderChange(year) ==
    /\ CanInteract
    /\ filters' = setCurrentYear(filters, year)
    /\ Rerender(filters', ui)
    /\ lastOp' = Op("setCurrentYear", year)
    /\ UNCHANGED ui
    /\ UserFrame

\* YearSlider: onClick={toggleAnimation}
PlayPauseClick ==
    /\ CanInteract
    /\ ui' = toggleAnimation(ui)
    /\ Rerender(filters, ui')
    /\ lastOp' = Op("toggleAnimation", Null)
    /\ UNCHANGED filters
    /\ UserFrame

\* YearSlider: updateUI({ animationSpeed: parseFloat(e.target.value) })
SpeedChange(speed) ==
    /\ CanInteract
    /\ ui' = updateUI(ui, [ animationSpeed |-> speed ])
    /\ Rerender(filters, ui')
    /\ lastOp' = Op("setSpeed", speed)
    /\ UNCHANGED filters
    /\ UserFrame

\* FilterPanel: updateFilters({ yearRange: [parseInt(value), yearRange[1]] })
YearRangeStart(year) ==
    /\ CanInteract
    /\ filters' = updateFilters(filters,
                      [ yearRange |-> <<year, filters.yearRange[2]>> ])
    /\ Rerender(filters', ui)
    /\ lastOp' = Op("setYearRange", filters'.yearRange)
    /\ UNCHANGED ui
    /\ UserFrame

\* FilterPanel: updateFilters({ yearRange: [yearRange[0], parseInt(value)] })
YearRangeEnd(year) ==
    /\ CanInteract
    /\ filters' = updateFilters(filters,
                      [ yearRange |-> <<filters.yearRange[1], year>> ])
    /\ Rerender(filters', ui)
    /\ lastOp' = Op("setYearRange", filters'.yearRange)
    /\ UNCHANGED ui
    /\ UserFrame

\* FilterPanel: onClick={() => toggleGenus(genus)}
GenusClick(genus) ==
    /\ CanInteract
    /\ filters' = toggleGenus(filters, genus)
    /\ Rerender(filters', ui)
    /\ lastOp' = Op("toggleGenus",
                    [ genus  |-> genus,
                      before |-> Range(filters.selectedGenera) ])
    /\ UNCHANGED ui
    /\ UserFrame

\* FilterPanel: the transect button's onClick
TransectClick(transect) ==
    /\ CanInteract
    /\ filters' = updateFilters(filters,
          [ selectedTransects |->
              IF Includes(filters.selectedTransects, transect)
              THEN Without(filters.selectedTransects, transect)
              ELSE Append(filters.selectedTransects, transect) ])
    /\ Rerender(filters', ui)
    /\ lastOp' = Op("toggleTransect", transect)
    /\ UNCHANGED ui
    /\ UserFrame

\* FilterPanel: updateFilters({ minSize: parseFloat(e.target.value) || 0 })
MinSizeInput(value) ==
    /\ CanInteract
    /\ filters' = updateFilters(filters, [ minSize |-> value ])
    /\ Rerender(filters', ui)
    /\ lastOp' = Op("setMinSize", value)
    /\ UNCHANGED ui
    /\ UserFrame

\* FilterPanel: updateFilters({ maxSize: parseFloat(e.target.value) || 10000 })
MaxSizeInput(value) ==
    /\ CanInteract
    /\ filters' = updateFilters(filters,
          [ maxSize |-> IF value = 0 THEN DefaultMaxSize ELSE value ])
    /\ Rerender(filters', ui)
    /\ lastOp' = Op("setMaxSize", value)
    /\ UNCHANGED ui
    /\ UserFrame

\* FilterPanel: the "Reset All Filters" button
ResetClick ==
    /\ CanInteract
    /\ filters' = updateFilters(filters,
          [ selectedGenera    |-> GENERA,
            selectedTransects |-> TRANSECTS,
            yearRange         |-> <<SliderMinYear, SliderMaxYear>>,
            minSize           |-> 0,
            maxSize           |-> DefaultMaxSize ])
    /\ Rerender(filters', ui)
    /\ lastOp' = Op("reset", Null)
    /\ UNCHANGED ui
    /\ UserFrame

\* dataUtils: the fallback range of getYearRange
FallbackYearRange == <<2013, 2024>>

\* dataUtils.getYearRange: the smallest and largest observation year
getYearRange(cs) ==
    LET years == UNION { { cs[i].observations[k].year :
                             k \in DOMAIN cs[i].observations } : i \in DOMAIN cs }
    IN  IF Len(cs) = 0 \/ years = {}
        THEN FallbackYearRange
        ELSE << CHOOSE y \in years : \A z \in years : y <= z, MaxOf(years) >>

\* TransectMap: the colonies drawn for the current year and filters
filteredCorals ==
    { i \in DOMAIN corals :
        \E k \in DOMAIN corals[i].observations :
            /\ \A j \in 1 .. (k - 1) :
                   corals[i].observations[j].year # filters.currentYear
            /\ corals[i].observations[k].year = filters.currentYear
            /\ corals[i].observations[k].is_alive
            /\ Includes(filters.selectedGenera, corals[i].genus)
            /\ Includes(filters.selectedTransects, corals[i].transect)
            /\ OrZero(corals[i].observations[k].volume_proxy) >= filters.minSize
            /\ OrZero(corals[i].observations[k].volume_proxy) <= filters.maxSize }

\* the store's selectCorals(ids) for an id list; TransectMap calls it with
\* [d.id] for a drawn colony and with [] for the svg background
SelectCorals(ids) ==
    /\ CanInteract
    /\ ui' = selectCorals(ui, ids)
    /\ Rerender(filters, ui')
    /\ lastOp' = Op("selectCorals",
                    [ ids |-> ids, prior |-> ui.selectedCoralIds ])
    /\ UNCHANGED filters
    /\ UserFrame

\* TransectMap: .on('click', (event, d) => { selectCorals([d.id]) })
ColonyClick(i) ==
    /\ i \in filteredCorals
    /\ SelectCorals(<<corals[i].id>>)

\* TransectMap: <svg onClick={() => selectCorals([])} />
BackgroundClick == SelectCorals(<<>>)

----------------------------------------------------------------------------
(* TransectMap with the effect that clears the selection when the year or  *)
(* a filter changes.                                                        *)

\* a dependency list without the year
mapDepsWithoutYear(f) ==
    <<f.selectedGenera, f.selectedTransects, f.minSize, f.maxSize>>

\* the effect's dependency list (selectCorals is a stable reference)
mapDeps(f) ==
    <<f.currentYear, f.selectedGenera, f.selectedTransects, f.minSize,
      f.maxSize>>

\* a store update to (f, u) in the dashboard, the re-render, and then the
\* effect: setHoveredColony(null); selectCorals([]) when a dependency has
\* changed.  `fresh` says that the update stored newly built arrays, which
\* differ from the previous ones whatever they hold.
MapUpdate(f, u, fresh, name, arg) ==
    /\ CanInteract
    /\ filters' = f
    /\ ui' = IF fresh \/ mapDeps(f) # mapDeps(filters)
             THEN selectCorals(u, <<>>)
             ELSE u
    /\ Rerender(filters', ui')
    /\ lastOp' = Op(name, arg)
    /\ UserFrame

----------------------------------------------------------------------------
(* Calls of the statistics utilities.  JavaScript runs a call to its end    *)
(* before any other code, so no call starts while kaplanMeier is running.   *)

NoCall == [ fn |-> "none", arg |-> Null, ret |-> Null ]

\* kaplanMeier(events) up to its loop: the sort works on the caller's array
KaplanMeierCall ==
    /\ km = Null
    /\ events' = sortByDuration(events)
    /\ km' = Some(kmStart(events))
    /\ call' = [ fn |-> "kaplanMeier", arg |-> events, ret |-> Null ]
    /\ UNCHANGED <<values, loaderVars, appVars>>

KaplanMeierLoop ==
    /\ km # Null
    /\ km[1].i < Len(km[1].sorted)
    /\ km' = Some(kmIterate(km[1]))
    /\ UNCHANGED <<events, values, call, loaderVars, appVars>>

KaplanMeierReturn ==
    /\ km # Null
    /\ km[1].i = Len(km[1].sorted)
    /\ call' = [ call EXCEPT !.ret = Some(kmFinish(km[1])) ]
    /\ km' = Null
    /\ UNCHANGED <<events, values, loaderVars, appVars>>

ComputeSizeBinsCall(binCount) ==
    /\ km = Null
    /\ call' = [ fn  |-> "computeSizeBins",
                 arg |-> values,
                 ret |-> Some(computeSizeBins(values, binCount)) ]
    /\ UNCHANGED <<events, values, km, loaderVars, appVars>>

ComputeMeanSizeCall(year, metric) ==
    /\ km = Null
    /\ call' = [ fn  |-> "computeMeanSize",
                 arg |-> corals,
                 ret |-> Some(computeMeanSize(corals, year, metric)) ]
    /\ UNCHANGED <<events, values, km, loaderVars, appVars>>

PrepareSurvivalEventsCall ==
    /\ km = Null
    /\ call' = [ fn  |-> "prepareSurvivalEvents",
                 arg |-> corals,
                 ret |-> Some(prepareSurvivalEvents(corals)) ]
    /\ UNCHANGED <<events, values, km, loaderVars, appVars>>

AggregateByYearCall(genera) ==
    /\ km = Null
    /\ call' = [ fn  |-> "aggregateByYear",
                 arg |-> corals,
                 ret |-> Some(aggregateByYear(corals, genera)) ]
    /\ UNCHANGED <<events, values, km, loaderVars, appVars>>

----------------------------------------------------------------------------
(* DataLoader: the singleton's cache and its loaders.  A call runs up to    *)
(* its first await (the cache test and the fetch); the rest of it runs when *)
(* the response arrives.                                                    *)

\* the most network requests issued for one file
MaxRequests == 2

\* files under /data that the loaders name
LoaderFiles ==
    { "summary_statistics.json", "spatial_2013.json", "spatial_2014.json",
      "timeseries.csv" }

\* loadSpatial: `spatial_${year}.json`
spatialFile(year) ==
    IF year = 2013 THEN "spatial_2013.json" ELSE "spatial_2014.json"

\* new DataLoaderClass(): an empty cache, nothing requested
newLoader ==
    [ cache    |-> [ f \in LoaderFiles |-> Null ],
      pending  |-> [ f \in LoaderFiles |-> 0 ],
      requests |-> [ f \in LoaderFiles |-> 0 ] ]

IdleLoader ==
    /\ loader = newLoader
    /\ loaderLog = [ cleared |-> FALSE, failed |-> {} ]

\* loadJSON / loadTimeSeries up to the await: a cached file is returned, any
\* other is fetched
startLoad(l, file) ==
    IF l.cache[file] # Null THEN l
    ELSE [ l EXCEPT !.pending[file]  = @ + 1,
                    !.requests[file] = @ + 1 ]

\* years.map(year => this.loadSpatial(year)...)
RECURSIVE startSpatialLoads(_, _)
startSpatialLoads(l, years) ==
    IF years = <<>> THEN l
    ELSE startSpatialLoads(startLoad(l, spatialFile(Head(years))), Tail(years))

LoadJSONCall(file) ==
    /\ loader.requests[file] < MaxRequests
    /\ loader' = startLoad(loader, file)
    /\ UNCHANGED <<loaderLog, statsVars, appVars>>

LoadTimeSeriesCall ==
    /\ loader.requests["timeseries.csv"] < MaxRequests
    /\ loader' = startLoad(loader, "timeseries.csv")
    /\ UNCHANGED <<loaderLog, statsVars, appVars>>

PreloadYearsCall(years) ==
    /\ loader' = startSpatialLoads(loader, years)
    /\ \A f \in LoaderFiles : loader'.requests[f] <= MaxRequests
    /\ UNCHANGED <<loaderLog, statsVars, appVars>>

\* the response is ok and parses: this.cache.set(filename, data)
ResponseOk(file) ==
    /\ loader.pending[file] > 0
    /\ loader' = [ loader EXCEPT !.pending[file] = @ - 1,
                                 !.cache[file]   = Some(<<"data", file>>) ]
    /\ UNCHANGED <<loaderLog, statsVars, appVars>>

\* the response is not ok, or fetch or the parse throws: the error is
\* logged and thrown again
ResponseFail(file) ==
    /\ loader.pending[file] > 0
    /\ loader' = [ loader EXCEPT !.pending[file] = @ - 1 ]
    /\ loaderLog' = [ loaderLog EXCEPT !.failed = @ \cup {file} ]
    /\ UNCHANGED <<statsVars, appVars>>

ClearCacheCall ==
    /\ loader' = [ loader EXCEPT !.cache = [ f \in LoaderFiles |-> Null ] ]
    /\ loaderLog' = [ loaderLog EXCEPT !.cleared = TRUE ]
    /\ UNCHANGED <<statsVars, appVars>>

----------------------------------------------------------------------------
(* Initial states and specifications *)

Rec(id, year, genus, transect, died, recruit, gmd, vol) ==
    [ coral_id |-> id, year |-> year, transect |-> transect, genus |-> genus,
      diam1 |-> gmd, diam2 |-> gmd, height |-> gmd,
      geom_mean_diam |-> gmd, volume_proxy |-> vol, fate |-> "",
      is_recruit |-> recruit, died |-> died ]

\* a small file: two colonies observed in 2014..2016
SampleRecords ==
    << Rec(1, 2014, "Poc", "T01", FALSE, FALSE, Some(10), Some(100)),
       Rec(1, 2015, "Poc", "T01", FALSE, FALSE, Some(12), Some(200)),
       Rec(2, 2015, "Porites", "T02", FALSE, TRUE, Some(5), Some(20)),
       Rec(1, 2016, "Poc", "T01", TRUE, FALSE, Null, Null),
       Rec(2, 2016, "Porites", "T02", FALSE, FALSE, Some(6), Some(30)) >>

\* the store as created by create<AppState>(...), App not yet rendered
InitApp(records, rows) ==
    /\ corals = <<>>
    /\ isLoading = FALSE
    /\ error = Null
    /\ filters = initialFilters
    /\ ui = initialUI
    /\ app = "created"
    /\ timers = {}
    /\ effect = [ deps |-> Null, interval |-> Null ]
    /\ inflight = 0
    /\ fetchCount = 0
    /\ loaded = FALSE
    /\ webAppData = records
    /\ rawData = rows
    /\ lastOp = [ op |-> "init", arg |-> Null,
                  prev |-> [ op |-> "other", arg |-> Null ] ]
    /\ events = <<>>
    /\ values = <<>>
    /\ km = Null
    /\ call = NoCall
    /\ IdleLoader

(* SpecAnim: the year range, the current year and the animation timer *)

InitAnim == InitApp(SampleRecords, <<>>)

\* the slider positions and speed options tried (the ticks visit every year)
AnimYearInputs ==
    { SliderMinYear, SliderMinYear + 2, SliderMaxYear - 3, SliderMaxYear }

AnimSpeedInputs == { sp \in SpeedOptions : sp <= 4 }

NextAnim ==
    \/ Render
    \/ MountEffects
    \/ FetchSucceed
    \/ \E y \in AnimYearInputs : SliderChange(y)
    \/ \E y \in AnimYearInputs : YearRangeStart(y)
    \/ \E y \in AnimYearInputs : YearRangeEnd(y)
    \/ PlayPauseClick
    \/ \E sp \in AnimSpeedInputs : SpeedChange(sp)
    \/ \E t \in timers : Tick(t)
    \/ Unmount

SpecAnim == InitAnim /\ [][NextAnim]_vars

\* setInterval keeps calling the callback of a live timer: a tick that can
\* change the current year is not put off forever
SpecAnimLive ==
    SpecAnim /\ WF_<<filters.currentYear>>(\E t \in timers : Tick(t))

(* SpecLoad: the initial data load and the view it gates *)

\* files the server may hold
SampleFiles ==
    { <<>>, SampleRecords, SubSeq(SampleRecords, 1, 2),
      SubSeq(SampleRecords, 3, 5) }

InitLoad == \E file \in SampleFiles : InitApp(file, <<>>)

NextLoad ==
    \/ Render
    \/ MountEffects
    \/ StrictRemount
    \/ \E kind \in FailureKinds : FetchFail(kind)
    \/ FetchSucceed
    \/ Unmount

SpecLoad == InitLoad /\ [][NextLoad]_vars

(* Spec: the filter panel, the year slider and the colony selection *)

\* the longest id list handed to selectCorals
MaxSel == 2

RECURSIVE SeqsUpTo(_, _)
SeqsUpTo(S, n) ==
    IF n = 0 THEN { <<>> }
    ELSE LET shorter == SeqsUpTo(S, n - 1)
         IN  shorter \cup { Append(s, x) : s \in shorter, x \in S }

\* the ids of the colonies in the file
ColonyIds == { webAppData[k].coral_id : k \in DOMAIN webAppData }

\* the genus buttons, slider positions and size entries tried
GenusInputs == { "Poc", "Mil" }

TransectInputs == { "T02" }

YearStartInputs == { SliderMinYear + 2 }

YearEndInputs == { SliderMaxYear - 5 }

CurrentYearInputs == { SliderMinYear + 2 }

MinSizeInputs == { 50 }

MaxSizeInputs == { 0, 150 }

Init == InitApp(SampleRecords, <<>>)

Next ==
    \/ Render
    \/ MountEffects
    \/ FetchSucceed
    \/ \E genus \in GenusInputs : GenusClick(genus)
    \/ \E transect \in TransectInputs : TransectClick(transect)
    \/ \E y \in YearStartInputs : YearRangeStart(y)
    \/ \E y \in YearEndInputs : YearRangeEnd(y)
    \/ \E y \in CurrentYearInputs : SliderChange(y)
    \/ \E v \in MinSizeInputs : MinSizeInput(v)
    \/ \E v \in MaxSizeInputs : MaxSizeInput(v)
    \/ \E ids \in SeqsUpTo(ColonyIds, MaxSel) : SelectCorals(ids)
    \/ \E i \in DOMAIN corals : ColonyClick(i)
    \/ BackgroundClick
    \/ ResetClick

Spec == Init /\ [][Next]_vars

(* SpecParse: the two loaders applied to bounded input files *)

\* the longest record list of a JSON file, and the number of leading year
\* blocks of a workbook row that hold data (the later blocks are all 'Na')
MaxRecords == 3

NumBlocks == 3

\* the genus name the file gives a colony
GenusOfId(id) == IF id = 1 THEN "Poc" ELSE "Porites"

\* records of colonies 1 and 2 in 2014 and 2015: measured, alive without
\* sizes, died without sizes, measured and flagged as a new recruit
RecordInputs ==
    UNION { { Rec(id, year, GenusOfId(id), "T01", FALSE, FALSE, Some(6), Some(36)),
              Rec(id, year, GenusOfId(id), "T01", FALSE, FALSE, Null, Null),
              Rec(id, year, GenusOfId(id), "T01", TRUE, FALSE, Null, Null),
              Rec(id, year, GenusOfId(id), "T01", FALSE, TRUE, Some(12), Some(288)) } :
            id \in {1, 2}, year \in {2014, 2015} }

\* one year block of a workbook row: diam1, diam2, height, observer, status,
\* two computed columns, fate
BlockOf(d1, d2, h, status, fate) ==
    << d1, d2, h, Str("HL"), Str(status), Str(""), Str(""), Str(fate) >>

Block(size, status, fate) == BlockOf(size, size, size, status, fate)

BlockInputs ==
    { Block(Str("Na"), "", ""),
      Block(Str("UK"), "", ""),
      Block(Num(0), "A", "Shrinkage"),
      Block(Num(6), "A", "Growth"),
      Block(Num(12), "A", "Recruitment"),
      BlockOf(Num(6), Num(6), Str("UK"), "A", "Growth"),
      Block(Str("D"), "D", "Death"),
      Block(Str("D"), "D", "") }

RECURSIVE Flatten(_)
Flatten(blocks) ==
    IF blocks = <<>> THEN <<>> ELSE Head(blocks) \o Flatten(Tail(blocks))

\* a workbook row: the metadata columns, then one block per year of YEARS
SheetRow(id, transect, genus, blocks) ==
    << Num(id), Str("LTER_1"), Str("Backreef"), Str(transect), Str(genus),
       Num(3), Num(4), Num(1) >>
    \o Flatten(blocks)
    \o Flatten([ i \in 1 .. (Len(YEARS) - Len(blocks)) |->
                   Block(Str("Na"), "", "") ])

HeaderRow ==
    << Str("coral_id"), Str("site"), Str("habitat"), Str("transect"),
       Str("genus"), Str("x"), Str("y"), Str("z") >>

\* workbooks: the header row, one colony row, an empty last row
SheetInputs ==
    { << HeaderRow, SheetRow(7, "T01", "Poc", blocks), <<>> >> :
        blocks \in [ 1 .. NumBlocks -> BlockInputs ] }

InitParse ==
    \/ \E records \in SeqsUpTo(RecordInputs, MaxRecords) :
           InitApp(records, <<>>)
    \/ \E sheet \in SheetInputs : InitApp(<<>>, sheet)

NextParse ==
    \/ Render
    \/ MountEffects
    \/ FetchSucceed
    \/ ExcelFetchSucceed

SpecParse == InitParse /\ [][NextParse]_vars

(* SpecStats: the statistics utilities called on bounded inputs *)

\* the longest event list and the longest size list handed to a call
MaxEvents == 4

MaxValues == 3

\* follow-up times in years, each ending in a death (1) or censored (0)
EventInputs ==
    { [ duration |-> d, event |-> e, genus |-> "Poc" ] :
        d \in 0 .. 2, e \in {0, 1} }

\* sizes: none, and three powers of ten
ValueInputs == { 0, 1, 10, 100 }

BinCountInputs == { 1, 2 }

MeanYearInputs == { 2015, 2016 }

MetricInputs == { "volume_proxy", "geometric_mean_diam" }

\* the genus lists queried
GenusQueries == { GENERA, <<"Por">>, <<"Poc", "Por">> }

\* the dashboard after the file's records have been loaded
LoadedApp(records) ==
    /\ corals = jsonCorals(records)
    /\ isLoading = FALSE
    /\ error = Null
    /\ filters = initialFilters
    /\ ui = initialUI
    /\ app = "mounted"
    /\ timers = {}
    /\ effect = [ deps     |-> Some(animationDeps(initialFilters, initialUI)),
                  interval |-> Null ]
    /\ inflight = 0
    /\ fetchCount = 1
    /\ loaded = TRUE
    /\ webAppData = records
    /\ rawData = <<>>
    /\ lastOp = [ op |-> "loadOk", arg |-> Null,
                  prev |-> [ op |-> "other", arg |-> Null ] ]

InitStats ==
    /\ LoadedApp(SampleRecords)
    /\ \/ \E evs \in SeqsUpTo(EventInputs, MaxEvents) :
              events = evs /\ values = <<>>
       \/ \E vs \in SeqsUpTo(ValueInputs, MaxValues) :
              events = <<>> /\ values = vs
    /\ km = Null
    /\ call = NoCall
    /\ IdleLoader

NextStats ==
    \/ KaplanMeierCall
    \/ KaplanMeierLoop
    \/ KaplanMeierReturn
    \/ \E n \in BinCountInputs : ComputeSizeBinsCall(n)
    \/ \E y \in MeanYearInputs, m \in MetricInputs : ComputeMeanSizeCall(y, m)
    \/ PrepareSurvivalEventsCall
    \/ \E genera \in GenusQueries : AggregateByYearCall(genera)

SpecStats == InitStats /\ [][NextStats]_vars

(* SpecMap: the dashboard whose TransectMap clears the selection *)

NextMap ==
    \/ Render
    \/ MountEffects
    \/ FetchSucceed
    \/ \E i \in filteredCorals :
           MapUpdate(filters, selectCorals(ui, <<corals[i].id>>), FALSE,
                     "selectCorals", corals[i].id)
    \/ MapUpdate(filters, selectCorals(ui, <<>>), FALSE, "selectCorals", 0)
    \/ \E genus \in GenusInputs :
           MapUpdate(toggleGenus(filters, genus), ui, TRUE, "toggleGenus", genus)
    \/ \E transect \in TransectInputs :
           MapUpdate(updateFilters(filters,
                         [ selectedTransects |->
                             IF Includes(filters.selectedTransects, transect)
                             THEN Without(filters.selectedTransects, transect)
                             ELSE Append(filters.selectedTransects, transect) ]),
                     ui, TRUE, "toggleTransect", transect)
    \/ \E v \in {0} \cup MinSizeInputs :
           MapUpdate(updateFilters(filters, [ minSize |-> v ]), ui, FALSE,
                     "setMinSize", v)
    \/ \E v \in {150, DefaultMaxSize} :
           MapUpdate(updateFilters(filters, [ maxSize |-> v ]), ui, FALSE,
                     "setMaxSize", v)
    \/ \E y \in {2014, 2015, 2016} :
           MapUpdate(setCurrentYear(filters, y), ui, FALSE, "setCurrentYear", y)
    \/ MapUpdate(filters, toggleAnimation(ui), FALSE, "toggleAnimation", 0)
    \/ \E t \in timers :
           MapUpdate(setCurrentYear(filters,
                         advanceYear(tickRead(t) + 1, t.minYear, t.maxYear)),
                     ui, FALSE, "tick", filters.currentYear)

SpecMap == Init /\ [][NextMap]_vars

(* SpecLoader: the DataLoader singleton under overlapping calls *)

JsonFileInputs == LoaderFiles \ { "timeseries.csv" }

PreloadInputs == { <<2013>>, <<2013, 2014>>, <<2014, 2014>> }

NextLoader ==
    \/ \E file \in JsonFileInputs : LoadJSONCall(file)
    \/ LoadTimeSeriesCall
    \/ \E years \in PreloadInputs : PreloadYearsCall(years)
    \/ \E file \in LoaderFiles : ResponseOk(file)
    \/ \E file \in LoaderFiles : ResponseFail(file)
    \/ ClearCacheCall

SpecLoader == Init /\ [][NextLoader]_vars

----------------------------------------------------------------------------
(* Properties of the year range and the animation (checked under SpecAnim) *)

\* C1: in every reachable state the current year lies within the year
\* range, yearRange[0] <= currentYear <= yearRange[1]
C1_CurrentYearInRange ==
    /\ filters.yearRange[1] <= filters.currentYear
    /\ filters.currentYear <= filters.yearRange[2]

\* C2: a tick reads the store's current year at the moment it runs and
\* writes year + 1, or the range minimum when year + 1 exceeds the range
\* maximum; after a setCurrentYear(y) the next tick therefore writes y + 1
\* (or the minimum)
C2_TickAdvancesStoreYear ==
    [][ lastOp'.op = "tick" =>
          /\ filters'.currentYear =
                 advanceYear(filters.currentYear + 1,
                             filters.yearRange[1], filters.yearRange[2])
          /\ lastOp.op = "setCurrentYear" =>
                 filters'.currentYear =
                     advanceYear(lastOp.arg + 1,
                                 filters.yearRange[1], filters.yearRange[2])
      ]_vars

\* a tick that followed setCurrentYear(maximum) and wrapped to the minimum
C2_Witness ==
    /\ lastOp.op = "tick"
    /\ lastOp.prev.op = "setCurrentYear"
    /\ lastOp.prev.arg = filters.yearRange[2]
    /\ filters.yearRange[1] < filters.yearRange[2]
    /\ filters.currentYear = filters.yearRange[1]

\* C3: the timer is cancelled on teardown: at most one timer is live, it is
\* the one the mounted effect created for the current speed and year range,
\* none is live while playAnimation is false or after App is unmounted, and
\* a tick only ever happens while playing and mounted
C3_TimerCancelledOnTeardown ==
    /\ Cardinality(timers) <= 1
    /\ timers \subseteq Range(effect.interval)
    /\ \A t \in timers :
           /\ t.minYear = filters.yearRange[1]
           /\ t.maxYear = filters.yearRange[2]
           /\ t.speed = ui.animationSpeed
    /\ ~ui.playAnimation => timers = {}
    /\ app = "unmounted" => timers = {}
    /\ lastOp.op = "tick" => ui.playAnimation /\ app = "mounted"

\* App was unmounted while the animation was playing, and no timer is left
C3_Witness ==
    /\ lastOp.op = "unmount"
    /\ ui.playAnimation
    /\ filters.currentYear # SliderMinYear
    /\ timers = {}

----------------------------------------------------------------------------
(* Properties of the data load (checked under SpecLoad) *)

\* C4: the dashboard is shown only if the dataset has been loaded
\* successfully; otherwise the loading view or the error view is shown
C4_DashboardOnlyWhenLoaded ==
    (app \in {"rendered", "mounted"} /\ View = "dashboard") => loaded

\* C5: a failed load ends with error set to a message, isLoading false and
\* corals unchanged, and issues no further fetch: fetches are issued only
\* by runs of the loading effect
C5_FailureEndsLoadWithoutRetry ==
    [][ /\ lastOp'.op = "loadFail" =>
              /\ error' # Null
              /\ isLoading' = FALSE
              /\ corals' = corals
              /\ fetchCount' = fetchCount
              /\ inflight' = inflight - 1
        /\ fetchCount' # fetchCount => lastOp'.op \in {"mount", "remount"}
      ]_vars

\* a load failed after another had delivered corals; nothing is in flight
C5_Witness ==
    /\ lastOp.op = "loadFail"
    /\ corals # <<>>
    /\ error # Null
    /\ ~isLoading
    /\ inflight = 0

----------------------------------------------------------------------------
(* Properties of the filters and the selection (checked under Spec) *)

\* C6: after a reset every field is restored: all four canonical genera and
\* both transects are selected, the year range is the loaded dataset's full
\* [min, max], no size bound is in effect and the colony selection is empty
C6_ResetRestoresEverything ==
    (lastOp.op = "reset" /\ loaded) =>
        /\ Range(filters.selectedGenera) = Range(GENERA)
        /\ Range(filters.selectedTransects) = Range(TRANSECTS)
        /\ filters.yearRange = getYearRange(corals)
        /\ filters.minSize = 0
        /\ filters.maxSize = DefaultMaxSize
        /\ ui.selectedCoralIds = <<>>

\* C7: selectCorals(ids) leaves exactly ids as the selection, whatever the
\* prior selection was, and changes no other field of the store
C7_SelectCoralsReplaces ==
    [][ lastOp'.op = "selectCorals" =>
          /\ ui' = [ ui EXCEPT !.selectedCoralIds = lastOp'.arg.ids ]
          /\ lastOp'.arg.prior = ui.selectedCoralIds
          /\ UNCHANGED <<filters, corals, isLoading, error>>
      ]_vars

\* a non-empty selection was replaced by ids that share no id with it
C7_Witness ==
    /\ lastOp.op = "selectCorals"
    /\ lastOp.arg.prior # <<>>
    /\ lastOp.arg.ids # <<>>
    /\ Range(lastOp.arg.prior) \cap Range(lastOp.arg.ids) = {}
    /\ ui.selectedCoralIds = lastOp.arg.ids

\* C8: toggleGenus(g) removes g when it was selected and adds it when it was
\* not, changes no other filter field, and two toggles of the same genus in
\* a row give back the set of selected genera they started from
C8_ToggleGenusAddsRemoves ==
    [][ lastOp'.op = "toggleGenus" =>
          LET g      == lastOp'.arg.genus
              before == Range(filters.selectedGenera)
              now    == Range(filters'.selectedGenera)
          IN  /\ lastOp'.arg.before = before
              /\ g \in before => now = before \ {g}
              /\ g \notin before => now = before \cup {g}
              /\ [ filters' EXCEPT !.selectedGenera = <<>> ]
                     = [ filters EXCEPT !.selectedGenera = <<>> ]
              /\ (lastOp.op = "toggleGenus" /\ lastOp.arg.genus = g)
                     => now = lastOp.arg.before
      ]_vars

\* a selected genus was toggled twice in a row: the set is back, the list
\* now ends with that genus
C8_Witness ==
    /\ lastOp.op = "toggleGenus"
    /\ lastOp.prev.op = "toggleGenus"
    /\ lastOp.prev.arg.genus = lastOp.arg.genus
    /\ lastOp.arg.genus \in lastOp.prev.arg.before
    /\ Range(filters.selectedGenera) = lastOp.prev.arg.before
    /\ filters.selectedGenera # GENERA


----------------------------------------------------------------------------
(* Properties of the loaded colonies (checked under SpecParse) *)

\* C9: whatever records the input holds, every colony produced has its
\* observations sorted strictly ascending by year, so no two observations
\* of a colony have the same year
C9_ObservationsStrictlyAscending ==
    \A i \in DOMAIN corals :
        \A k \in 1 .. (Len(corals[i].observations) - 1) :
            corals[i].observations[k].year < corals[i].observations[k + 1].year

\* C10: for every colony of either loader, recruitment_year is at most the
\* year of each of its observations, and when death_year is set each
\* observation year is at most death_year
C10_YearsBetweenRecruitmentAndDeath ==
    \A i \in DOMAIN corals :
        \A k \in DOMAIN corals[i].observations :
            /\ corals[i].recruitment_year # Null =>
                   corals[i].recruitment_year[1] <= corals[i].observations[k].year
            /\ corals[i].death_year # Null =>
                   corals[i].observations[k].year <= corals[i].death_year[1]


\* C11: for each of diam1, diam2 and height, a raw value that is a sentinel
\* code, omitted or null gives an absent (null) field in the observation,
\* never 0: for the observations of the JSON loader (every record of the
\* colony and year has the field null) and for those of parseMeasurement
\* (the cell of the year block is a missing-data code)
C11_MissingSizesAreNull ==
    LET SizeFields == <<"diam1", "diam2", "height">>
    IN  /\ lastOp.op = "loadOk" =>
              \A i \in DOMAIN corals : \A j \in DOMAIN corals[i].observations :
                  LET o   == corals[i].observations[j]
                      src == { k \in DOMAIN webAppData :
                                 /\ webAppData[k].coral_id = o.coral_id
                                 /\ webAppData[k].year = o.year }
                  IN  \A c \in 1 .. 3 :
                          (\A k \in src : webAppData[k][SizeFields[c]] = Null)
                              => o[SizeFields[c]] = Null
        /\ lastOp.op = "loadExcelOk" =>
              \A i \in DOMAIN corals : \A j \in DOMAIN corals[i].observations :
                  LET o     == corals[i].observations[j]
                      start == METADATA_COLS
                                   + (o.year - YEARS[1]) * YEAR_BLOCK_SIZE
                  IN  \A r \in 2 .. Len(rawData) : \A c \in 1 .. 3 :
                          (/\ At(rawData[r], 0) = Num(o.coral_id)
                           /\ At(rawData[r], start + c - 1) \in MissingCodes)
                              => o[SizeFields[c]] = Null


\* C12: a record whose diam1, diam2 and height are all "not applicable"
\* still yields an observation of its colony and year, whose geometric-mean
\* diameter and volume proxy are both absent and whose alive flag is given
\* by the explicit status / died field alone
C12_AllSentinelRecordKept ==
    /\ lastOp.op = "loadOk" =>
          \A k \in DOMAIN webAppData :
              LET rec == webAppData[k]
              IN  (rec.diam1 = Null /\ rec.diam2 = Null /\ rec.height = Null) =>
                      \E i \in DOMAIN corals :
                          \E j \in DOMAIN corals[i].observations :
                              LET o == corals[i].observations[j]
                              IN  /\ o.coral_id = rec.coral_id
                                  /\ o.year = rec.year
                                  /\ o.geometric_mean_diam = Null
                                  /\ o.volume_proxy = Null
                                  /\ o.is_alive = ~rec.died
    /\ lastOp.op = "loadExcelOk" =>
          \A r \in 2 .. Len(rawData) : \A y \in DOMAIN YEARS :
              LET row   == rawData[r]
                  start == METADATA_COLS + (y - 1) * YEAR_BLOCK_SIZE
              IN  (/\ Len(row) >= METADATA_COLS
                   /\ At(row, 0)[1] = "num"
                   /\ At(row, start) = Str("Na")
                   /\ At(row, start + 1) = Str("Na")
                   /\ At(row, start + 2) = Str("Na")) =>
                      \E i \in DOMAIN corals :
                          \E j \in DOMAIN corals[i].observations :
                              LET o == corals[i].observations[j]
                              IN  /\ Num(o.coral_id) = At(row, 0)
                                  /\ o.year = YEARS[y]
                                  /\ o.geometric_mean_diam = Null
                                  /\ o.volume_proxy = Null
                                  /\ o.is_alive = (At(row, start + 4) # Str("D"))


\* C13: in every colony's observation list the growth rate of the first
\* observation is absent; that of observation j > 1 is absent when its size
\* or the previous size is absent or the previous size is 0, and is
\* otherwise ln(size[j] / size[j-1]) of the colony's own observations j-1
\* and j (the size is the geometric-mean diameter in the JSON loader and the
\* volume proxy in enrichCoral)
C13_GrowthRateFromOwnConsecutivePair ==
    lastOp.op \in {"loadOk", "loadExcelOk"} =>
        \A i \in DOMAIN corals : \A j \in DOMAIN corals[i].observations :
            LET obs  == corals[i].observations
                size == [ k \in DOMAIN obs |->
                            IF lastOp.op = "loadOk"
                            THEN obs[k].geometric_mean_diam
                            ELSE obs[k].volume_proxy ]
            IN  IF j = 1 THEN obs[j].growth_rate = Null
                ELSE IF \/ size[j] = Null
                        \/ size[j - 1] = Null
                        \/ size[j - 1] = Some(0)
                     THEN obs[j].growth_rate = Null
                     ELSE obs[j].growth_rate
                              = <<"ln", size[j][1], size[j - 1][1]>>


\* C14: a colony's recruitment_year is the year of its first observation,
\* unless a later observation carries the is-new-recruit flag, and then it
\* is the year of that observation (of the first flagged one when several
\* are flagged)
C14_RecruitmentYearFirstOrFlagged ==
    lastOp.op \in {"loadOk", "loadExcelOk"} =>
        \A i \in DOMAIN corals :
            LET obs     == corals[i].observations
                flagged == { j \in DOMAIN obs : obs[j].is_recruit }
                first   == CHOOSE j \in flagged : \A k \in flagged : j <= k
            IN  obs # <<>> =>
                    corals[i].recruitment_year =
                        IF flagged # {} THEN Some(obs[first].year)
                        ELSE Some(obs[1].year)


\* C15: a colony's lifespan is death_year - recruitment_year when it has a
\* death year, and otherwise the year of its last observation minus
\* recruitment_year
C15_LifespanIsYearDifference ==
    lastOp.op \in {"loadOk", "loadExcelOk"} =>
        \A i \in DOMAIN corals :
            LET c   == corals[i]
                obs == c.observations
            IN  (obs # <<>> /\ c.recruitment_year # Null) =>
                    c.lifespan =
                        IF c.death_year # Null
                        THEN c.death_year[1] - c.recruitment_year[1]
                        ELSE obs[Len(obs)].year - c.recruitment_year[1]


\* C16: a colony whose only observation is marked dead and has no diameters
\* and no height has death_year and recruitment_year equal to that
\* observation's year, lifespan 0 and max_size 0 (max_size is a plain number
\* in the JSON loader's colonies and a tagged one in enrichCoral's)
C16_SingleDeadObservation ==
    lastOp.op \in {"loadOk", "loadExcelOk"} =>
        \A i \in DOMAIN corals :
            LET c   == corals[i]
                obs == c.observations
            IN  (/\ Len(obs) = 1
                 /\ ~obs[1].is_alive
                 /\ obs[1].diam1 \in {Null, Some(0)}
                 /\ obs[1].diam2 \in {Null, Some(0)}
                 /\ obs[1].height \in {Null, Some(0)}) =>
                    /\ c.death_year = Some(obs[1].year)
                    /\ c.recruitment_year = Some(obs[1].year)
                    /\ c.lifespan = 0
                    /\ IF lastOp.op = "loadOk" THEN c.max_size = 0
                       ELSE c.max_size = Some(0)


\* C17: a colony's max_size is the maximum of the sizes present in its
\* observations, and 0 when no observation has a size, in particular when
\* it has no alive observation or no observation at all (the size is the
\* geometric-mean diameter in the JSON loader and the volume proxy in
\* enrichCoral)
C17_MaxSizeOfPresentSizes ==
    lastOp.op \in {"loadOk", "loadExcelOk"} =>
        \A i \in DOMAIN corals :
            LET obs     == corals[i].observations
                size    == [ k \in DOMAIN obs |->
                               IF lastOp.op = "loadOk"
                               THEN obs[k].geometric_mean_diam
                               ELSE obs[k].volume_proxy ]
                present == { size[k][1] : k \in { n \in DOMAIN obs : size[n] # Null } }
                largest == IF present = {} THEN 0
                           ELSE CHOOSE m \in present : \A x \in present : x <= m
            IN  IF lastOp.op = "loadOk"
                THEN corals[i].max_size = largest
                ELSE corals[i].max_size = Some(largest)


\* C18: in every observation the geometric-mean diameter is present exactly
\* when diam1 and diam2 are both present and non-negative, whatever the
\* height, and the volume proxy is present exactly when diam1, diam2 and
\* height are all present and non-negative
C18_DerivedSizesPresentExactlyWhen ==
    lastOp.op \in {"loadOk", "loadExcelOk"} =>
        \A i \in DOMAIN corals : \A j \in DOMAIN corals[i].observations :
            LET o     == corals[i].observations[j]
                Ok(n) == n # Null /\ n[1] >= 0
            IN  /\ (o.geometric_mean_diam # Null) <=> (Ok(o.diam1) /\ Ok(o.diam2))
                /\ (o.volume_proxy # Null)
                       <=> (Ok(o.diam1) /\ Ok(o.diam2) /\ Ok(o.height))


----------------------------------------------------------------------------
(* Properties of the population statistics (checked under SpecParse) *)

C20_RecruitsAndDeathsPerYearGenus ==
    lastOp.op \in {"loadOk", "loadExcelOk"} =>
        LET result == aggregateByYear(corals, GENERA)
        IN  \A y \in DOMAIN YEARS : \A g \in Range(GENERA) :
                LET ofGenus == { n \in DOMAIN corals : corals[n].genus = g }
                    firstSeenThen ==
                        { n \in ofGenus :
                            /\ corals[n].observations # <<>>
                            /\ \E k \in DOMAIN corals[n].observations :
                                   corals[n].observations[k].year = YEARS[y]
                            /\ \A k \in DOMAIN corals[n].observations :
                                   corals[n].observations[k].year >= YEARS[y] }
                    diedThen ==
                        { n \in ofGenus : corals[n].death_year = Some(YEARS[y]) }
                IN  /\ result[y].byGenus[g].recruits = Cardinality(firstSeenThen)
                    /\ result[y].byGenus[g].deaths = Cardinality(diedThen)

\* C30: if from some point on the animation keeps playing, the year range
\* stays a fixed [min, max] with min <= max and only timer ticks change the
\* store, then, whatever the current year was at that point, the current
\* year is eventually inside [min, max] for good and every year of the range
\* is shown again and again.
C30_AnimationCyclesThroughRange ==
    \A lo \in AnimYearInputs, hi \in AnimYearInputs :
        (lo <= hi) =>
            ( <>[]( /\ ui.playAnimation
                    /\ filters.yearRange = <<lo, hi>>
                    /\ lastOp.op = "tick" )
              => /\ <>[](filters.currentYear \in lo .. hi)
                 /\ \A y \in lo .. hi : []<>(filters.currentYear = y) )

\* the animation playing over a narrowed range, entered from below it
C30_Witness ==
    /\ ui.playAnimation
    /\ lastOp.op = "tick"
    /\ filters.yearRange = <<SliderMinYear + 2, SliderMaxYear - 3>>
    /\ filters.currentYear = SliderMinYear + 2
    /\ lastOp.arg = SliderMinYear + 1

----------------------------------------------------------------------------
(* Properties of the load and the year range (checked under SpecLoad) *)

\* C24: once setCorals has stored the loaded colonies, the store's
\* filters.yearRange is [smallest observation year, largest observation
\* year] of those colonies whenever they have an observation (a fallback
\* range stands in only when there is none).
C24_SetCoralsSetsYearRange ==
    lastOp.op = "loadOk" /\ corals # <<>> =>
        filters.yearRange = getYearRange(corals)

\* C28: isLoading is true in every state in which at least one run of
\* loadData() is still awaiting its fetch, also when runs overlap.
C28_LoadingWhileFetchInFlight ==
    inflight > 0 => isLoading

----------------------------------------------------------------------------
(* Properties of the map's selection (checked under SpecMap) *)

\* C29: with the TransectMap that clears the selection on filter changes,
\* every selected id is the id of a colony the map currently draws: alive in
\* the current year and passing the genus, transect and size filters.
C29_SelectionWithinDisplayed ==
    \A k \in DOMAIN ui.selectedCoralIds :
        \E i \in filteredCorals : corals[i].id = ui.selectedCoralIds[k]

\* a colony selected in a year, with filters, other than the initial ones
C29_Witness ==
    /\ ui.selectedCoralIds # <<>>
    /\ filters.currentYear = 2016
    /\ filters.selectedGenera # GENERA
    /\ filters.maxSize # DefaultMaxSize

----------------------------------------------------------------------------
(* Properties of the statistics utilities (checked under SpecStats) *)

\* C21: no statistics query changes its input: during and after a call of
\* aggregateByYear, computeMeanSize, computeSizeBins, kaplanMeier or
\* prepareSurvivalEvents the argument collection has the elements, in the
\* order, it had when the call was made.
C21_QueriesLeaveInputUnchanged ==
    /\ call.fn = "kaplanMeier" => events = call.arg
    /\ call.fn = "computeSizeBins" => values = call.arg
    /\ call.fn \in {"aggregateByYear", "computeMeanSize",
                    "prepareSurvivalEvents"} => corals = call.arg

\* C22: every curve kaplanMeier builds begins with the point (time 0,
\* survival 1.0), and its survival values never rise along the curve: each
\* point's survival is at most that of every earlier point.
C22_CurveStartsAtOneAndNeverRises ==
    LET Good(curve) ==
            /\ curve[1] = [ time |-> 0, survival |-> One ]
            /\ \A i, j \in DOMAIN curve :
                   i < j => curve[j].survival[1] * curve[i].survival[2]
                              <= curve[i].survival[1] * curve[j].survival[2]
    IN  /\ km # Null => Good(km[1].curve)
        /\ call.fn = "kaplanMeier" /\ call.ret # Null => Good(call.ret[1])

\* a returned curve of three points whose survival falls at each of them
C22_Witness ==
    /\ call.fn = "kaplanMeier"
    /\ call.ret # Null
    /\ Len(call.ret[1]) = 3
    /\ call.ret[1][3].survival[1] * call.ret[1][2].survival[2]
         < call.ret[1][2].survival[1] * call.ret[1][3].survival[2]

\* C25: for the curve kaplanMeier returns, the points after the first are
\* the durations with at least one death, in ascending order, and at each
\* such duration t the survival is the previous survival times (n - d) / n
\* with d the deaths at t and n the events of duration t or more.
C25_FactorUsesEventsStillAtRisk ==
    call.fn = "kaplanMeier" /\ call.ret # Null =>
        LET evs   == call.arg
            curve == call.ret[1]
            D(t)  == Cardinality({ k \in DOMAIN evs :
                         evs[k].duration = t /\ evs[k].event = 1 })
            N(t)  == Cardinality({ k \in DOMAIN evs : evs[k].duration >= t })
            DeathTimes == { evs[k].duration : k \in { m \in DOMAIN evs :
                                                        evs[m].event = 1 } }
        IN  /\ { curve[k].time : k \in 2 .. Len(curve) } = DeathTimes
            /\ Len(curve) = 1 + Cardinality(DeathTimes)
            /\ \A k \in 2 .. Len(curve) :
                   LET t == curve[k].time
                   IN  /\ k > 2 => curve[k - 1].time < t
                       /\ curve[k].survival[1] * curve[k - 1].survival[2] * N(t)
                          = curve[k - 1].survival[1] * (N(t) - D(t))
                              * curve[k].survival[2]

\* C26: whenever kaplanMeier is about to divide by atRisk, atRisk is greater
\* than 0 and at least the number of deaths of the step.
C26_AtRiskCoversDeathsAtDivision ==
    km # Null /\ kmDivides(km[1]) =>
        km[1].atRisk > 0 /\ km[1].atRisk >= km[1].deaths

\* a second division, reached with censored events among those counted
C26_Witness ==
    /\ km # Null
    /\ kmDivides(km[1])
    /\ Len(km[1].curve) >= 2
    /\ km[1].censored > 0

\* C23: for a non-empty list of sizes, the bin edges computeSizeBins returns
\* are increasing, and the bin counts add up to the number of the strictly
\* positive sizes (each of them, the largest included, is in one bin).
C23_BinsCoverPositiveValues ==
    call.fn = "computeSizeBins" /\ call.arg # <<>> =>
        LET vs   == call.arg
            bins == call.ret[1]
            Less(x, y) == x # NaN /\ y # NaN /\ x[2] < y[2]
        IN  /\ \A i \in DOMAIN bins : Less(bins[i].x0, bins[i].x1)
            /\ \A i \in 2 .. Len(bins) : bins[i - 1].x1 = bins[i].x0
            /\ Sum([ i \in DOMAIN bins |-> bins[i].count ])
                 = Cardinality({ k \in DOMAIN vs : vs[k] > 0 })

----------------------------------------------------------------------------
(* Properties of the DataLoader cache (checked under SpecLoader) *)

\* C27: as long as clearCache has not been called, a file that is in the
\* cache and none of whose fetches failed has been requested from the
\* network at most once, however the calls for it overlapped.
C27_FetchedAtMostOnce ==
    ~loaderLog.cleared =>
        \A f \in LoaderFiles :
            (loader.cache[f] # Null /\ f \notin loaderLog.failed) =>
                loader.requests[f] <= 1

====
